---- MODULE Spec2Model ----
(***************************************************************************)
(* PKU-Schedule-Planner: the course loader (pku_course_parser.py) and the  *)
(* selection logic of the timetable UI (course_ui.py).                     *)
(*                                                                         *)
(* Text is modelled at token level.  Chinese tokens are written in ASCII:  *)
(*   "meizhou" = 每周, "danzhou" = 单周, "shuangzhou" = 双周,              *)
(*   weekday characters "yi".."liu","ri","tian" = 一..六,日,天,            *)
(*   rooms "LJ107" = 理教107, "EJ205" = 二教205, "LK1_1114" = 理科一号楼1114, *)
(*   "UNKNOWN" = the sentinel （地点未知）.                                 *)
(* Five specifications share the variables:                                *)
(*   SpecMeeting - calls of the pure functions of the schedule model,      *)
(*   SpecParse   - calls of parse_meeting_line and parse_course_row,       *)
(*   SpecLoad    - the row loop of parse_file,                             *)
(*   SpecReload  - parse_file called several times in one process,         *)
(*   Spec        - the add / remove / credit-limit / week handlers of      *)
(*                 CourseUI.                                               *)
(***************************************************************************)
EXTENDS Integers, Sequences, FiniteSets, TLC

VARIABLES
    fn,                      \* SpecMeeting: the last pure-function call and its result
    rows,                    \* parse_file: the raw rows read from the file
    pos,                     \* parse_file: number of rows the loop has consumed
    courses,                 \* parse_file: courses
    by_key,                  \* parse_file: by_key  (CourseKey -> list of Course)
    by_uid,                  \* parse_file: by_uid  (uid -> Course); CourseUI.by_uid
    global_warnings,         \* parse_file: global_warnings
    empty_room_rows,         \* parse_file: empty_room_rows
    meeting_parse_warnings,  \* parse_file: meeting_parse_warnings
    key_collisions,          \* parse_file: key_collisions
    selected,                \* CourseUI.selected
    occ_cache,               \* CourseUI.occ_cache
    credit_limit,            \* CourseUI.credit_limit_var
    week_var,                \* CourseUI.week_var: the week the timetable shows
    last                     \* the last UI handler run: its inputs and its outcome

loadVars == <<rows, pos, courses, by_key, by_uid, global_warnings,
              empty_room_rows, meeting_parse_warnings, key_collisions>>
uiVars == <<selected, occ_cache, credit_limit, week_var, last>>
vars == <<fn, loadVars, uiVars>>

(***************************************************************************)
(* Bounds of the model                                                     *)
(***************************************************************************)
\* weeks a Meeting handed to occurs_on_week may start or end on: 0..MaxWeekIn
MaxWeekIn == 18
\* meetings of a course handed to build_occupied_cells_for_course
MaxMeetings == 2
\* rows of a loaded file
MaxRows == 3
\* courses picked in one add or remove
MaxBatch == 2
\* the last week the user moves the timetable to
MaxWeekShown == 2
\* lines of the field 上课考试信息 of a row handed to parse_course_row
MaxLines == 3
\* the largest period number written in a period-notation line
MaxPeriodIn == 13
\* the largest hour written in a clock-notation line
MaxHour == 23
\* loads made one after the other, and rows of a file that is loaded again
MaxLoads == 3
MaxReloadRows == 2

(***************************************************************************)
(* Helpers over sequences and dictionaries                                 *)
(***************************************************************************)
Range(s) == {s[i] : i \in 1..Len(s)}

SeqsUpTo(S, n) == UNION {[1..k -> S] : k \in 0..n}

\* sequences of distinct elements of S, of length 1..n (a multi-selection of a tree)
DistinctSeqs(S, n) ==
    {s \in UNION {[1..k -> S] : k \in 1..n} :
        \A i, j \in 1..Len(s) : i # j => s[i] # s[j]}

\* d[k] = v on a Python dict
DictSet(d, k, v) == [x \in (DOMAIN d) \cup {k} |-> IF x = k THEN v ELSE d[x]]

EmptyDict == [x \in {} |-> 0]

\* Throughout,  CHOOSE out \in {F(v) : v \in {e}} : TRUE  is F(e), written so that
\* e is evaluated once and v names its value.

(***************************************************************************)
(* Data model: pku_course_parser.py                                        *)
(***************************************************************************)
WeekPattern == {"every", "odd", "even"}

WEEK_MIN == 1
WEEK_MAX == 16

Meeting(ws, we, pat, wd, ps, pe, room, raw) ==
    [start_week |-> ws, end_week |-> we, pattern |-> pat, weekday |-> wd,
     start_period |-> ps, end_period |-> pe, room |-> room, raw |-> raw]

\* Meeting.occurs_on_week, with the ODD test inverted
occurs_on_week_parity_swapped(m, week) ==
    IF week < m.start_week \/ week > m.end_week THEN FALSE
    ELSE IF m.pattern = "every" THEN TRUE
    ELSE IF m.pattern = "odd" THEN week % 2 = 0
    ELSE IF m.pattern = "even" THEN week % 2 = 1
    ELSE FALSE

\* Meeting.occurs_on_week
occurs_on_week(m, week) ==
    IF week < m.start_week \/ week > m.end_week THEN FALSE
    ELSE IF m.pattern = "every" THEN TRUE
    ELSE IF m.pattern = "odd" THEN week % 2 = 1
    ELSE IF m.pattern = "even" THEN week % 2 = 0
    ELSE FALSE

(***************************************************************************)
(* Occupancy: course_ui.py                                                 *)
(***************************************************************************)
\* the innermost loop: for p in range(m.start_period, m.end_period + 1)
RECURSIVE PeriodLoop(_, _, _, _)
PeriodLoop(occ, week, m, p) ==
    IF p > m.end_period THEN occ
    ELSE PeriodLoop(occ \cup {<<week, m.weekday, p>>}, week, m, p + 1)

\* for m in c.meetings (from the i-th on), within one week
RECURSIVE MeetingLoop(_, _, _, _)
MeetingLoop(occ, week, meetings, i) ==
    IF i > Len(meetings) THEN occ
    ELSE IF ~occurs_on_week(meetings[i], week)
         THEN MeetingLoop(occ, week, meetings, i + 1)
         ELSE CHOOSE out \in
                {MeetingLoop(nxt, week, meetings, i + 1) :
                    nxt \in {PeriodLoop(occ, week, meetings[i],
                                        meetings[i].start_period)}} : TRUE

\* for week in range(WEEK_MIN, WEEK_MAX + 1)
RECURSIVE WeekLoop(_, _, _)
WeekLoop(occ, week, meetings) ==
    IF week > WEEK_MAX THEN occ
    ELSE CHOOSE out \in
            {WeekLoop(nxt, week + 1, meetings) :
                nxt \in {MeetingLoop(occ, week, meetings, 1)}} : TRUE

\* build_occupied_cells_for_course that stops after a course's first meeting
build_occupied_first_meeting_only(meetings) ==
    WeekLoop({}, WEEK_MIN, SubSeq(meetings, 1, IF Len(meetings) > 0 THEN 1 ELSE 0))

\* build_occupied_cells_for_course(c), c.meetings = meetings
build_occupied_cells_for_course(meetings) == WeekLoop({}, WEEK_MIN, meetings)

(***************************************************************************)
(* Text, at token level                                                    *)
(*                                                                         *)
(* A room text is [base, qual, spaced]: base is the text without any       *)
(* whitespace and without a trailing qualifier, qual the trailing          *)
(* qualifier ("" none, "jifang" = 机房, "nei" = 内), spaced whether the text *)
(* holds inner whitespace, which stands between the building and the       *)
(* number and before the qualifier (理教 107, 二教 205 机房).  The empty      *)
(* text is NoRoomText.                                                     *)
(*                                                                         *)
(* A line of the field 上课考试信息 is one of                               *)
(*   [kind |-> "blank"]    whitespace only                                 *)
(*   [kind |-> "exam"]     starts with 考试时间 / 考试方式; tail and         *)
(*                         tailroom as for a junk line                     *)
(*   [kind |-> "period"]   <ws>~<we>周 [pat] 周<wd> <ps>~<pe>节 [room] [(..)] *)
(*                         overlong: one of its numbers has more digits    *)
(*                         than int() converts (4300)                      *)
(*   [kind |-> "clock"]    [第]<ws>-<we>周周<wd>[tod]<h1>[:<m1>][点][半]-    *)
(*                         <h2>[:<m2>][点][半][,<room>]; m1, m2 = -1 when   *)
(*                         absent; wrapped: the whole line stands in       *)
(*                         parentheses, as (备注：...)                      *)
(*   [kind |-> "junk"]     any other text.  Its tail is what is left after *)
(*                         every parenthesised part is removed, from the   *)
(*                         last comma on.  tail |-> "code": the tail ends  *)
(*                         with 理教/一教/二教/三教/四教 and 3-4 digits;      *)
(*                         "lou": it does not, and holds 理科N号楼 followed  *)
(*                         by 3-4 digits anywhere; "none": neither.        *)
(*                         tailroom is that building and number as a room  *)
(*                         text                                            *)
(* A period or clock line may carry a weekday character, a week pattern    *)
(* or a time-of-day token outside the ones the regular expressions know    *)
(* ("ba" = 八, "gezhou" = 隔周, "zhongwu" = 中午): no expression matches it.  *)
(***************************************************************************)
RoomText(base, qual, spaced) == [base |-> base, qual |-> qual, spaced |-> spaced]
NoRoomText == RoomText("", "", FALSE)

\* WEEKDAY_MAP; 0 stands for .get() returning None
WEEKDAY_MAP(ch) ==
    CASE ch = "yi" -> 1 [] ch = "er" -> 2 [] ch = "san" -> 3 [] ch = "si" -> 4
      [] ch = "wu" -> 5 [] ch = "liu" -> 6 [] ch = "ri" -> 7 [] ch = "tian" -> 7
      [] OTHER -> 0

\* the character class [一二三四五六日天] of both regular expressions
WeekdayChars == {"yi", "er", "san", "si", "wu", "liu", "ri", "tian"}

\* _split_info_lines: the non-empty lines, in order
RECURSIVE split_info_lines(_)
split_info_lines(info) ==
    IF info = <<>> THEN <<>>
    ELSE IF Head(info).kind = "blank" THEN split_info_lines(Tail(info))
    ELSE <<Head(info)>> \o split_info_lines(Tail(info))

\* _is_exam_line
is_exam_line(line) == line.kind = "exam"

\* _pattern_from_text with the two tokens taken for each other
pattern_from_text_swapped(pat) ==
    IF pat = "danzhou" THEN "even"
    ELSE IF pat = "shuangzhou" THEN "odd"
    ELSE "every"

\* _pattern_from_text
pattern_from_text(pat) ==
    IF pat = "danzhou" THEN "odd"
    ELSE IF pat = "shuangzhou" THEN "even"
    ELSE "every"

\* _normalize_room: strip, drop a trailing 机房 / 内, remove all whitespace
normalize_room(room) == room.base

\* MEETING_PERIOD_RE.match(s) is not None
MatchesPeriodRE(line) ==
    /\ line.kind = "period"
    /\ line.pat \in {"", "meizhou", "danzhou", "shuangzhou"}
    /\ line.wd \in WeekdayChars

\* MEETING_CLOCK_RE.match(_strip_wrapping_parens(s)) is not None
MatchesClockRE(line) ==
    /\ line.kind = "clock"
    /\ line.wd \in WeekdayChars
    /\ line.tod \in {"", "shangwu", "xiawu", "wan", "wanshang"}

\* CLOCK_SLOT_MAP: 下午 13:00-16:30 -> 5-8, 晚 / 晚上 18:00-21:30 -> 9-12
CLOCK_SLOT_MAP ==
    << [label |-> "xiawu",    s |-> 13 * 60, e |-> 16 * 60 + 30, p1 |-> 5, p2 |-> 8],
       [label |-> "wan",      s |-> 18 * 60, e |-> 21 * 60 + 30, p1 |-> 9, p2 |-> 12],
       [label |-> "wanshang", s |-> 18 * 60, e |-> 21 * 60 + 30, p1 |-> 9, p2 |-> 12] >>

\* _to_minutes
to_minutes(h, m) == h * 60 + m

\* _parse_clock_parts(h, m, half): m = -1 for None
parse_clock_parts(h, m, half) ==
    LET mm0 == IF m # -1 THEN m ELSE 0
        mm  == IF half THEN 30 ELSE mm0
    IN to_minutes(h, mm)

Abs(x) == IF x < 0 THEN -x ELSE x

\* the first loop of _clock_to_periods, from entry i on: <<>> when it falls through
RECURSIVE AnchorLoop(_, _, _, _)
AnchorLoop(tod, start_min, end_min, i) ==
    IF i > Len(CLOCK_SLOT_MAP) THEN <<>>
    ELSE LET slot == CLOCK_SLOT_MAP[i] IN
         IF tod # "" /\ tod # slot.label
         THEN AnchorLoop(tod, start_min, end_min, i + 1)
         ELSE IF Abs(start_min - slot.s) <= 20 /\ Abs(end_min - slot.e) <= 20
              THEN <<slot.p1, slot.p2>>
              ELSE AnchorLoop(tod, start_min, end_min, i + 1)

\* the second loop of _clock_to_periods
RECURSIVE ContainLoop(_, _, _, _)
ContainLoop(tod, start_min, end_min, i) ==
    IF i > Len(CLOCK_SLOT_MAP) THEN <<>>
    ELSE LET slot == CLOCK_SLOT_MAP[i] IN
         IF tod # "" /\ tod # slot.label
         THEN ContainLoop(tod, start_min, end_min, i + 1)
         ELSE IF start_min >= slot.s - 20 /\ end_min <= slot.e + 20
              THEN <<slot.p1, slot.p2>>
              ELSE ContainLoop(tod, start_min, end_min, i + 1)

\* _clock_to_periods: <<p1, p2>>, or <<>> for None
clock_to_periods(tod, start_min, end_min) ==
    LET a == AnchorLoop(tod, start_min, end_min, 1)
        c == ContainLoop(tod, start_min, end_min, 1)
    IN IF a # <<>> THEN a
       ELSE IF c # <<>> THEN c
       ELSE IF 12 * 60 <= start_min /\ start_min <= 15 * 60 /\ end_min >= 16 * 60
            THEN <<5, 8>>
       ELSE IF start_min >= 17 * 60 THEN <<9, 12>>
       ELSE <<>>

\* the two expressions the tail of a line is searched with: "jiao" for a room
\* of 理教/一教/二教/三教/四教 with 3-4 digits, "lou" for one of 理科N号楼 with
\* 3-4 digits
RoomClass(base) ==
    CASE base \in {"LJ107", "EJ205"} -> "jiao"
      [] base \in {"LK1_1114"} -> "lou"
      [] OTHER -> "other"

\* lines 268-277 on a line no expression matches and whose tail, after the
\* parenthesised parts are removed and from the last comma on, ends with the room
\* text room: the first search is anchored at the end of the tail, so a trailing
\* 机房 / 内 defeats it; the second is not anchored
room_from_tail(room) ==
    IF RoomClass(room.base) = "jiao" /\ room.qual = "" THEN room.base
    ELSE IF RoomClass(room.base) = "lou" THEN room.base
    ELSE ""

\* extract_room_from_any
extract_room_from_any(line) ==
    IF MatchesPeriodRE(line) THEN normalize_room(line.room)
    ELSE IF MatchesClockRE(line) THEN normalize_room(line.room)
    ELSE IF line.kind = "period" THEN room_from_tail(line.room)
    ELSE IF line.kind = "clock"
         THEN IF line.wrapped THEN "" ELSE room_from_tail(line.room)
    ELSE IF line.kind \in {"junk", "exam"} /\ line.tail \in {"code", "lou"}
         THEN normalize_room(line.tailroom)
    ELSE ""

\* parse_meeting_line: [tag |-> "meeting", m |-> Meeting], [tag |-> "none"] for
\* None, [tag |-> "raise"] when int() raises ValueError on an overlong number
parse_meeting_line(line) ==
    IF line.kind = "blank" \/ is_exam_line(line) THEN [tag |-> "none"]
    ELSE IF MatchesPeriodRE(line) THEN
        IF line.overlong THEN [tag |-> "raise"]
        ELSE LET wd == WEEKDAY_MAP(line.wd)
                 ps == IF line.ps > line.pe THEN line.pe ELSE line.ps
                 pe == IF line.ps > line.pe THEN line.ps ELSE line.pe
             IN IF wd = 0 THEN [tag |-> "none"]
                ELSE [tag |-> "meeting",
                      m |-> Meeting(line.ws, line.we, pattern_from_text(line.pat), wd,
                                    ps, pe, normalize_room(line.room), line)]
    ELSE IF MatchesClockRE(line) THEN
        IF line.overlong THEN [tag |-> "raise"]
        ELSE LET wd == WEEKDAY_MAP(line.wd)
                 s0 == parse_clock_parts(line.h1, line.m1, line.half1)
                 e0 == parse_clock_parts(line.h2, line.m2, line.half2)
                 pm == line.tod \in {"xiawu", "wan", "wanshang"}
                 start_min == IF pm /\ s0 < 12 * 60 THEN s0 + 12 * 60 ELSE s0
                 end_min == IF pm /\ e0 < 12 * 60 THEN e0 + 12 * 60 ELSE e0
                 periods == clock_to_periods(line.tod, start_min, end_min)
             IN IF wd = 0 THEN [tag |-> "none"]
                ELSE IF periods = <<>> THEN [tag |-> "none"]
                ELSE [tag |-> "meeting",
                      m |-> Meeting(line.ws, line.we, "every", wd, periods[1], periods[2],
                                    normalize_room(line.room), line)]
    ELSE [tag |-> "none"]

(***************************************************************************)
(* Numbers (Python floats)                                                 *)
(*                                                                         *)
(* A number is [g, e], standing for g * 0.5 + e * 2^-32: g counts half     *)
(* credits and e units of 2^-32 = 0.00000000023283064365386962890625.      *)
(* Every such number is a float, the text of its decimal expansion is      *)
(* converted to it without rounding, and float sums of such numbers are    *)
(* exact in any order (|g| and |e| stay below 1000 here), so sums are      *)
(* component-wise and the order is lexicographic.  The literal 1e-9 lies   *)
(* between 4 and 5 units (4.29...), and limit + 1e-9 is rounded by far     *)
(* less than the 0.29 units that part it from the grid: for x and limit on *)
(* the grid,  x > limit + 1e-9  holds iff x exceeds limit by more than 4   *)
(* units.                                                                  *)
(***************************************************************************)
Num(g, e) == [g |-> g, e |-> e]
Zero == Num(0, 0)
NumAdd(a, b) == Num(a.g + b.g, a.e + b.e)
NumGt(a, b) == a.g > b.g \/ (a.g = b.g /\ a.e > b.e)
\* the literal 1e-9 of _add_selected_courses as the grid sees it: 4 units
Tolerance == Num(0, 4)

(***************************************************************************)
(* Rows and courses: parse_course_row                                      *)
(*                                                                         *)
(* A raw row is [kind |-> "nonmapping"] (an object without .get) or        *)
(* [kind |-> "mapping", code, name, teacher, dept, class_no, credits,      *)
(* info]: the stripped fields 课程号, 课程名, 教师, 开课单位, 班号, the text   *)
(* of 学分 ([kind |-> "empty"], [kind |-> "word"] not a number,             *)
(* [kind |-> "num", val]) and the lines of 上课考试信息.                     *)
(***************************************************************************)
ROOM_UNKNOWN == "UNKNOWN"

\* float(credits_raw) if credits_raw != "" else 0.0, ValueError -> 0.0
parse_credits(text) ==
    IF text.kind = "empty" THEN Zero
    ELSE IF text.kind = "num" THEN text.val
    ELSE Zero

\* the warning parse_course_row records for a line: 未能解析上课行：{ln}
UnparsedLine(ln) == [what |-> "unparsed_line", line |-> ln]

\* one pass of the body of  for ln in lines, given mt = parse_meeting_line(ln)
\* and rm = extract_room_from_any(ln); acc = [meetings, warnings, rooms, raised]
LineStep(acc, ln, mt, rm) ==
    IF is_exam_line(ln) THEN acc
    ELSE IF mt.tag = "raise" THEN [acc EXCEPT !.raised = TRUE]
    ELSE IF mt.tag = "none"
    THEN [acc EXCEPT !.warnings = Append(@, UnparsedLine(ln)),
                     !.rooms = IF rm # "" THEN Append(@, rm) ELSE @]
    ELSE [acc EXCEPT !.meetings = Append(@, mt.m),
                     !.rooms = IF mt.m.room # "" THEN Append(@, mt.m.room)
                               ELSE IF rm # "" THEN Append(@, rm)
                               ELSE @]

\* for ln in lines (from the i-th on), until a line raises
RECURSIVE LineLoop(_, _, _)
LineLoop(lines, i, acc) ==
    IF i > Len(lines) \/ acc.raised THEN acc
    ELSE CHOOSE out \in
            {LineLoop(lines, i + 1, nxt) :
                nxt \in {LineStep(acc, lines[i], mt, extract_room_from_any(lines[i])) :
                            mt \in {parse_meeting_line(lines[i])}}} : TRUE

CourseKey(name, code, room, class_no) ==
    [course_name |-> name, course_code |-> code, room |-> room, class_no |-> class_no]

\* the Course parse_course_row returns once the loop over the lines has ended
BuildCourse(row, acc) ==
    LET room_for_key == IF acc.rooms # <<>> THEN acc.rooms[1] ELSE ROOM_UNKNOWN
    IN [uid |-> <<row.code, row.class_no>>,
        key |-> CourseKey(row.name, row.code, room_for_key, row.class_no),
        course_name |-> row.name,
        course_code |-> row.code,
        teacher |-> row.teacher,
        department |-> row.dept,
        credits |-> parse_credits(row.credits),
        class_no |-> row.class_no,
        meetings |-> acc.meetings,
        raw |-> row,
        parse_warnings |-> acc.warnings]

\* parse_course_row: [tag |-> "course", c |-> Course], or [tag |-> "raise"] when
\* row.get (AttributeError) or int() in parse_meeting_line (ValueError) raises
parse_course_row(row) ==
    IF row.kind # "mapping" THEN [tag |-> "raise"]
    ELSE CHOOSE out \in
            {IF acc.raised THEN [tag |-> "raise"]
             ELSE [tag |-> "course", c |-> BuildCourse(row, acc)] :
                acc \in {LineLoop(split_info_lines(row.info), 1,
                                  [meetings |-> <<>>, warnings |-> <<>>,
                                   rooms |-> <<>>, raised |-> FALSE])}} : TRUE

(***************************************************************************)
(* parse_file: the loop over the rows                                      *)
(***************************************************************************)
\* the containers of a load, with by_uid left over from the load before
EmptyResultKeepingUidIndex ==
    [courses |-> <<>>, by_key |-> EmptyDict, by_uid |-> by_uid,
     global_warnings |-> <<>>, empty_room_rows |-> <<>>,
     meeting_parse_warnings |-> <<>>, key_collisions |-> <<>>]

\* the containers parse_file creates before its loop
EmptyResult ==
    [courses |-> <<>>, by_key |-> EmptyDict, by_uid |-> EmptyDict,
     global_warnings |-> <<>>, empty_room_rows |-> <<>>,
     meeting_parse_warnings |-> <<>>, key_collisions |-> <<>>]

\* by_uid[c.uid] = c
SetByUid(by, c) == DictSet(by, c.uid, c)

\* by_key[c.key] = [c]: the list of the key started anew
SetByKeyReplacing(by, c) == DictSet(by, c.key, <<c>>)

\* lst = by_key.setdefault(c.key, []) ... lst.append(c)
SetByKey(by, c) ==
    DictSet(by, c.key, Append(IF c.key \in DOMAIN by THEN by[c.key] ELSE <<>>, c))

\* the try block of the loop body, for a row that built the Course c
TryBlock(st, idx, row, c) ==
    LET lst == IF c.key \in DOMAIN st.by_key THEN st.by_key[c.key] ELSE <<>>
    IN [courses |-> Append(st.courses, c),
        by_uid |-> SetByUid(st.by_uid, c),
        global_warnings |->
            IF c.uid \in DOMAIN st.by_uid
            THEN Append(st.global_warnings,
                        [what |-> "dup_uid", idx |-> idx, uid |-> c.uid,
                         old_teacher |-> st.by_uid[c.uid].teacher,
                         new_teacher |-> c.teacher])
            ELSE st.global_warnings,
        empty_room_rows |->
            IF c.key.room = ""
            THEN Append(st.empty_room_rows,
                        [idx |-> idx, course_code |-> c.course_code,
                         course_name |-> c.course_name, class_no |-> c.class_no,
                         teacher |-> c.teacher, info |-> row.info])
            ELSE st.empty_room_rows,
        meeting_parse_warnings |->
            st.meeting_parse_warnings \o
            [k \in 1..Len(c.parse_warnings) |->
                [idx |-> idx, course_code |-> c.course_code,
                 course_name |-> c.course_name, class_no |-> c.class_no,
                 w |-> c.parse_warnings[k]]],
        key_collisions |->
            IF lst # <<>>
            THEN Append(st.key_collisions,
                        [idx |-> idx, key |-> c.key,
                         old_class_no |-> lst[1].class_no,
                         old_teacher |-> lst[1].teacher,
                         new_class_no |-> c.class_no, new_teacher |-> c.teacher])
            ELSE st.key_collisions,
        by_key |-> SetByKey(st.by_key, c)]

\* the except block, its warning written without the row number
ExceptBlockNoRowNumber(st, idx) ==
    [st EXCEPT !.global_warnings = Append(@, [what |-> "row_failed", idx |-> 0])]

\* the except block: 第 {idx} 行解析失败
ExceptBlock(st, idx) ==
    [st EXCEPT !.global_warnings = Append(@, [what |-> "row_failed", idx |-> idx])]

\* the body of  for idx, row in enumerate(rows, start=2): try ... except
LoadStep(st, idx, row) ==
    CHOOSE out \in
        {IF r.tag = "raise" THEN ExceptBlock(st, idx) ELSE TryBlock(st, idx, row, r.c) :
            r \in {parse_course_row(row)}} : TRUE

\* the loop over rows[i..], from the state st: what parse_file returns
RECURSIVE LoadLoop(_, _, _)
LoadLoop(st, rs, i) ==
    IF i > Len(rs) THEN st
    ELSE CHOOSE out \in
            {LoadLoop(nxt, rs, i + 1) : nxt \in {LoadStep(st, i + 1, rs[i])}} : TRUE

\* parse_file on a file holding the rows rs
parse_file(rs) == LoadLoop(EmptyResult, rs, 1)

(***************************************************************************)
(* Inputs                                                                  *)
(***************************************************************************)
PeriodLine(ws, we, pat, wd, ps, pe, room) ==
    [kind |-> "period", ws |-> ws, we |-> we, pat |-> pat, wd |-> wd,
     ps |-> ps, pe |-> pe, room |-> room, overlong |-> FALSE]

ClockLine(ws, we, wd, tod, h1, m1, half1, h2, m2, half2, room) ==
    [kind |-> "clock", wrapped |-> TRUE, ws |-> ws, we |-> we, wd |-> wd, tod |-> tod,
     h1 |-> h1, m1 |-> m1, half1 |-> half1, h2 |-> h2, m2 |-> m2, half2 |-> half2,
     room |-> room, overlong |-> FALSE]

\* 3~16周 每周 周三 3~4节 理教107
LineA == PeriodLine(3, 16, "meizhou", "san", 3, 4, RoomText("LJ107", "", FALSE))
\* 5~5周 周三 4~5节 二教 205 机房
LineB == PeriodLine(5, 5, "", "san", 4, 5, RoomText("EJ205", "jifang", TRUE))
\* 1~16周 单周 周三 5~6节
LineC == PeriodLine(1, 16, "danzhou", "san", 5, 6, NoRoomText)
\* 1~16周 双周 周三 6~5节 机房
LineD == PeriodLine(1, 16, "shuangzhou", "san", 6, 5, RoomText("", "jifang", FALSE))
\* 1~16周 周三 7~8节 理教107
LineE == PeriodLine(1, 16, "", "san", 7, 8, RoomText("LJ107", "", FALSE))
\* (备注：1-16周周二下午1-4点半,二教205)
LineClock == ClockLine(1, 16, "er", "xiawu", 1, -1, FALSE, 4, -1, TRUE,
                       RoomText("EJ205", "", FALSE))
\* 待定
LineJunk == [kind |-> "junk", tail |-> "none", tailroom |-> NoRoomText]
\* 时间另行通知,理教 107
LineJunkRoom == [kind |-> "junk", tail |-> "code",
                 tailroom |-> RoomText("LJ107", "", TRUE)]
\* 考试时间：2024-01-10 14:00
LineExam == [kind |-> "exam", tail |-> "none", tailroom |-> NoRoomText]
\* 考试时间：20240110下午,理教107
LineExamRoom == [kind |-> "exam", tail |-> "code",
                 tailroom |-> RoomText("LJ107", "", FALSE)]
LineBlank == [kind |-> "blank"]
\* 1~99...9周 周一 1~2节, the week number 5000 digits long
LineOverlong == [PeriodLine(1, 1, "", "yi", 1, 2, NoRoomText) EXCEPT !.overlong = TRUE]

Row(code, class_no, name, teacher, dept, credits, info) ==
    [kind |-> "mapping", code |-> code, class_no |-> class_no, name |-> name,
     teacher |-> teacher, dept |-> dept, credits |-> credits, info |-> info]

CreditsText(g, e) == [kind |-> "num", val |-> Num(g, e)]

\* the rows a loaded file is made of
RowA        == Row("C1", "1", "N1", "T1", "D1", CreditsText(4, 0), <<LineA, LineExam>>)
RowA2       == Row("C1", "1", "N1", "T2", "D1", CreditsText(6, 0), <<LineB>>)
\* the key of RowA (same name, code, class and first room), another teacher
RowA3       == Row("C1", "1", "N1", "T3", "D1", CreditsText(4, 0), <<LineE>>)
RowNoRoom   == Row("C2", "1", "N2", "T1", "D2", [kind |-> "word"], <<LineBlank, LineJunk, LineD>>)
RowFallback == Row("C2", "1", "N2", "T3", "D2", [kind |-> "empty"], <<LineC, LineJunkRoom>>)
\* the uid of RowA, with a line whose number int() does not convert
RowOverlong == Row("C1", "1", "N1", "T4", "D1", CreditsText(4, 0), <<LineA, LineOverlong>>)
RowNonMapping == [kind |-> "nonmapping"]

RowSamples == {RowA, RowA2, RowA3, RowNoRoom, RowFallback, RowOverlong, RowNonMapping}

Idle == [op |-> "none"]

(***************************************************************************)
(* SpecLoad: parse_file, one row of the loop per step                      *)
(***************************************************************************)
LoadState ==
    [courses |-> courses, by_key |-> by_key, by_uid |-> by_uid,
     global_warnings |-> global_warnings, empty_room_rows |-> empty_room_rows,
     meeting_parse_warnings |-> meeting_parse_warnings,
     key_collisions |-> key_collisions]

SetLoadState(st) ==
    /\ courses' = st.courses
    /\ by_key' = st.by_key
    /\ by_uid' = st.by_uid
    /\ global_warnings' = st.global_warnings
    /\ empty_room_rows' = st.empty_room_rows
    /\ meeting_parse_warnings' = st.meeting_parse_warnings
    /\ key_collisions' = st.key_collisions

InitLoad ==
    /\ rows \in SeqsUpTo(RowSamples, MaxRows)
    /\ pos = 0
    /\ courses = <<>>
    /\ by_key = EmptyDict
    /\ by_uid = EmptyDict
    /\ global_warnings = <<>>
    /\ empty_room_rows = <<>>
    /\ meeting_parse_warnings = <<>>
    /\ key_collisions = <<>>
    /\ fn = Idle
    /\ selected = {}
    /\ occ_cache = EmptyDict
    /\ credit_limit = Zero
    /\ week_var = WEEK_MIN
    /\ last = Idle

\* one iteration of  for idx, row in enumerate(rows, start=2)
LoadRow ==
    /\ pos < Len(rows)
    /\ \E st \in {LoadStep(LoadState, pos + 2, rows[pos + 1])} : SetLoadState(st)
    /\ pos' = pos + 1
    /\ UNCHANGED <<rows, fn, uiVars>>

NextLoad == LoadRow

SpecLoad == InitLoad /\ [][NextLoad]_vars

\* the loop has ended: parse_file returns
LoadDone == pos = Len(rows)

(***************************************************************************)
(* SpecReload: parse_file called several times in one process; fn keeps    *)
(* what each finished call was given and what it returned                  *)
(***************************************************************************)
ReloadFiles == SeqsUpTo({RowA, RowA2}, MaxReloadRows)

Loading == [op |-> "parse_file"]

InitReload ==
    /\ rows = <<>>
    /\ pos = 0
    /\ courses = <<>>
    /\ by_key = EmptyDict
    /\ by_uid = EmptyDict
    /\ global_warnings = <<>>
    /\ empty_room_rows = <<>>
    /\ meeting_parse_warnings = <<>>
    /\ key_collisions = <<>>
    /\ fn = [op |-> "parse_file", calls |-> <<>>]
    /\ selected = {}
    /\ occ_cache = EmptyDict
    /\ credit_limit = Zero
    /\ week_var = WEEK_MIN
    /\ last = Idle

\* parse_file is entered: the rows are read and the containers created
ParseFileBegin ==
    /\ last = Idle
    /\ Len(fn.calls) < MaxLoads
    /\ \E rs \in ReloadFiles : rows' = rs
    /\ pos' = 0
    /\ SetLoadState(EmptyResult)
    /\ last' = Loading
    /\ UNCHANGED <<fn, selected, occ_cache, credit_limit, week_var>>

\* one iteration of the loop of the call in progress
ParseFileRow ==
    /\ last = Loading
    /\ LoadRow

\* the loop has ended: the ParseResult is assembled and returned
ParseFileReturn ==
    /\ last = Loading
    /\ pos = Len(rows)
    /\ fn' = [fn EXCEPT !.calls = Append(@, [rows |-> rows, result |-> LoadState])]
    /\ last' = Idle
    /\ UNCHANGED <<rows, pos, loadVars, selected, occ_cache, credit_limit, week_var>>

NextReload == ParseFileBegin \/ ParseFileRow \/ ParseFileReturn

SpecReload == InitReload /\ [][NextReload]_vars

(***************************************************************************)
(* SpecMeeting: calls of Meeting.occurs_on_week and of                     *)
(* build_occupied_cells_for_course on bounded inputs                       *)
(***************************************************************************)
\* Meeting.occurs_on
occurs_on(m, week, weekday, period) ==
    /\ occurs_on_week(m, week)
    /\ m.weekday = weekday
    /\ m.start_period <= period /\ period <= m.end_period

\* the meetings occurs_on_week is called on: every week range and pattern
WeekMeetings ==
    {Meeting(ws, we, pat, 1, 1, 2, "", "") :
        ws \in 0..MaxWeekIn, we \in 0..MaxWeekIn, pat \in WeekPattern}

\* the meetings of the courses build_occupied_cells_for_course is called on:
\* week ranges inside and across 1..16 under each pattern, and, every week, a
\* range wholly outside 1..16, a reversed week range and a reversed period range
OccMeetings ==
    {Meeting(sh[1], sh[2], sh[6], sh[3], sh[4], sh[5], "", "") :
        sh \in {<<3, 16, 3, 3, 5, "every">>, <<3, 16, 3, 3, 5, "odd">>,
                <<3, 16, 3, 3, 5, "even">>,
                <<15, 18, 3, 3, 5, "every">>, <<15, 18, 3, 3, 5, "odd">>,
                <<15, 18, 3, 3, 5, "even">>,
                <<0, 2, 7, 4, 4, "every">>, <<0, 2, 7, 4, 4, "odd">>,
                <<0, 2, 7, 4, 4, "even">>,
                <<17, 18, 7, 4, 4, "every">>, <<16, 3, 3, 1, 2, "every">>,
                <<5, 5, 3, 6, 5, "every">>}}

InitMeeting ==
    /\ fn = Idle
    /\ rows = <<>>
    /\ pos = 0
    /\ courses = <<>>
    /\ by_key = EmptyDict
    /\ by_uid = EmptyDict
    /\ global_warnings = <<>>
    /\ empty_room_rows = <<>>
    /\ meeting_parse_warnings = <<>>
    /\ key_collisions = <<>>
    /\ selected = {}
    /\ occ_cache = EmptyDict
    /\ credit_limit = Zero
    /\ week_var = WEEK_MIN
    /\ last = Idle

\* one call per behaviour: a call depends on nothing an earlier call left behind
CallOccursOnWeek ==
    /\ fn = Idle
    /\ \E m \in WeekMeetings, week \in WEEK_MIN..WEEK_MAX :
          fn' = [op |-> "occurs_on_week", m |-> m, week |-> week,
                 result |-> occurs_on_week(m, week)]
    /\ UNCHANGED <<loadVars, uiVars>>

CallBuildOccupied ==
    /\ fn = Idle
    /\ \E meetings \in SeqsUpTo(OccMeetings, MaxMeetings) :
          fn' = [op |-> "build_occupied_cells_for_course", meetings |-> meetings,
                 result |-> build_occupied_cells_for_course(meetings)]
    /\ UNCHANGED <<loadVars, uiVars>>

NextMeeting == CallOccursOnWeek \/ CallBuildOccupied

SpecMeeting == InitMeeting /\ [][NextMeeting]_vars

(***************************************************************************)
(* SpecParse: calls of parse_meeting_line and of parse_course_row on       *)
(* bounded inputs                                                          *)
(***************************************************************************)
\* period-notation lines: week ranges in both orders, every pattern token,
\* period numbers 0..MaxPeriodIn in both orders, with and without a room
PeriodLines ==
    {PeriodLine(ws, we, pat, wd, ps, pe, room) :
        ws \in {1, 3, 16}, we \in {1, 3, 16},
        pat \in {"", "meizhou", "danzhou", "shuangzhou"},
        wd \in {"yi", "san", "ri", "tian"},
        ps \in 0..MaxPeriodIn, pe \in 0..MaxPeriodIn,
        room \in {NoRoomText, RoomText("LJ107", "", FALSE)}}

\* the ways the start of a clock range is written, <<h, m, half>>: no minutes
\* (m = -1), or minutes around the 20 minute tolerance of 13:00 and 18:00
ClockStarts ==
    {<<h, m, FALSE>> : h \in 0..MaxHour, m \in {-1, 20, 21, 39, 40}}
        \cup {<<h, -1, TRUE>> : h \in 0..MaxHour}

\* the ways its end is written: minutes around the tolerance of 16:30 and 21:30
ClockFinishes ==
    {<<h, m, FALSE>> : h \in 0..MaxHour, m \in {-1, 9, 10, 30, 50, 51}}
        \cup {<<h, m, TRUE>> : h \in 0..MaxHour, m \in {-1, 50}}

\* clock-notation lines: 1-16周周二 [tod] <start>-<end>,二教205
ClockLines ==
    {ClockLine(1, 16, "er", tod, a[1], a[2], a[3], b[1], b[2], b[3],
               RoomText("EJ205", "", FALSE)) :
        tod \in {"", "shangwu", "xiawu", "wan", "wanshang"},
        a \in ClockStarts, b \in ClockFinishes}

\* 1-16周周二上午8-10点,理教 107: matches the clock grammar, maps to no periods
LineClockUnmapped ==
    ClockLine(1, 16, "er", "shangwu", 8, -1, FALSE, 10, -1, FALSE,
              RoomText("LJ107", "", TRUE))

\* lines no expression matches, with a room at their end:
\* 3~16周 每周 周八 3~4节 理教107
LineBadWeekday ==
    PeriodLine(3, 16, "meizhou", "ba", 3, 4, RoomText("LJ107", "", FALSE))
\* 3~16周 隔周 周三 3~4节 理科一号楼1114机房
LineBadPattern ==
    PeriodLine(3, 16, "gezhou", "san", 3, 4, RoomText("LK1_1114", "jifang", FALSE))
\* 1-16周周二中午1-4点半,二教 205 机房
LineBadTod ==
    [ClockLine(1, 16, "er", "zhongwu", 1, -1, FALSE, 4, -1, TRUE,
               RoomText("EJ205", "jifang", TRUE)) EXCEPT !.wrapped = FALSE]
\* (备注：1-16周周八下午1-4点半,二教205)
LineBadWeekdayWrapped ==
    ClockLine(1, 16, "ba", "xiawu", 1, -1, FALSE, 4, -1, TRUE,
              RoomText("EJ205", "", FALSE))
\* 1-16周周八下午1-4点半,二教205
LineBadWeekdayClock == [LineBadWeekdayWrapped EXCEPT !.wrapped = FALSE]

\* the lines the rows handed to parse_course_row are made of
LineSamples ==
    {LineA, LineB, LineC, LineD, LineClock, LineClockUnmapped, LineBadWeekday,
     LineBadPattern, LineBadTod, LineBadWeekdayWrapped, LineBadWeekdayClock,
     LineJunk, LineJunkRoom, LineExam, LineExamRoom, LineBlank, LineOverlong}

\* the texts of the field 学分: empty, a word, 2, 0, -2
CreditsSamples ==
    {[kind |-> "empty"], [kind |-> "word"], CreditsText(4, 0), CreditsText(0, 0),
     CreditsText(-4, 0)}

CallParseMeetingLine ==
    /\ fn = Idle
    /\ \E line \in PeriodLines \cup ClockLines \cup LineSamples :
          fn' = [op |-> "parse_meeting_line", line |-> line,
                 result |-> parse_meeting_line(line)]
    /\ UNCHANGED <<loadVars, uiVars>>

CallParseCourseRow ==
    /\ fn = Idle
    /\ \E info \in SeqsUpTo(LineSamples, MaxLines), credits \in CreditsSamples :
          \E row \in {Row("C1", "1", "N1", "T1", "D1", credits, info)} :
             fn' = [op |-> "parse_course_row", row |-> row,
                    result |-> parse_course_row(row)]
    /\ UNCHANGED <<loadVars, uiVars>>

NextParse == CallParseMeetingLine \/ CallParseCourseRow

SpecParse == InitMeeting /\ [][NextParse]_vars

(***************************************************************************)
(* CourseUI: the selection handlers of course_ui.py                        *)
(***************************************************************************)
\* sum(float(by_uid[uid].credits or 0.0) for uid in S), S a set
RECURSIVE SumOverSet(_, _)
SumOverSet(by, S) ==
    IF S = {} THEN Zero
    ELSE LET u == CHOOSE x \in S : TRUE
         IN NumAdd(by[u].credits, SumOverSet(by, S \ {u}))

\* sum(float(by_uid[uid].credits or 0.0) for uid in uids), uids a list
RECURSIVE SumOverList(_, _)
SumOverList(by, uids) ==
    IF uids = <<>> THEN Zero
    ELSE NumAdd(by[Head(uids)].credits, SumOverList(by, Tail(uids)))

\* _current_total_credits
current_total_credits(by, sel) == SumOverSet(by, sel)

\* the dict  occupied  after  for uid in self.selected: for cell in occ_cache[uid]:
\* occupied left empty: no cell of a selected course is entered
OccupiedByNone(cache, sel) == EmptyDict

\* occupied[cell] = uid.  A set is iterated in no specified order, so a cell of
\* several selected courses may end up with any of them: the value kept for a cell
\* is the set of the uids it may hold.
OccupiedBySelected(cache, sel) ==
    [cell \in UNION {cache[u] : u \in sel} |-> {u \in sel : cell \in cache[u]}]

\* for uid in uids (from the i-th on) of _find_conflict_between: the set of the
\* conflicts it may return, [other, new, cell]; empty when it returns None.  The
\* cells of a candidate are scanned in no specified order, so the cell reported
\* is any of its cells already in  occupied.
RECURSIVE CandidateLoop(_, _, _, _)
CandidateLoop(cache, occupied, uids, i) ==
    IF i > Len(uids) THEN {}
    ELSE LET uid == uids[i]
             hits == {cell \in cache[uid] : cell \in DOMAIN occupied}
         IN IF hits # {}
            THEN UNION {{[other |-> o, new |-> uid, cell |-> cell] : o \in occupied[cell]} :
                           cell \in hits}
            ELSE CHOOSE out \in
                    {CandidateLoop(cache, nxt, uids, i + 1) :
                        nxt \in {[cell \in (DOMAIN occupied) \cup cache[uid] |->
                                    IF cell \in cache[uid] THEN {uid}
                                    ELSE occupied[cell]]}} : TRUE

\* _find_conflict_between that never records a candidate's own cells
find_conflict_selected_only(cache, sel, uids) ==
    UNION {CandidateLoop(cache, OccupiedBySelected(cache, sel), <<uids[i]>>, 1) :
              i \in {j \in 1..Len(uids) :
                        \A k \in 1..(j - 1) :
                            CandidateLoop(cache, OccupiedBySelected(cache, sel),
                                          <<uids[k]>>, 1) = {}}}

\* _find_conflict_between that goes through the candidates from the last to the
\* first
find_conflict_backwards(cache, sel, uids) ==
    CandidateLoop(cache, OccupiedBySelected(cache, sel),
                  [k \in 1..Len(uids) |-> uids[Len(uids) + 1 - k]], 1)

\* _find_conflict_between
find_conflict_between(cache, sel, uids) ==
    CandidateLoop(cache, OccupiedBySelected(cache, sel), uids, 1)

\* the credit gate that leaves the selected courses out of the total
ExceedsLimitBatchOnly(current, add_credits, limit) ==
    NumGt(add_credits, NumAdd(limit, Tolerance))

\* current + add_credits > limit + 1e-9, in float arithmetic: on the grid of Num
\* the sum is exact and exceeds limit + 1e-9 iff it exceeds limit by 5 units or more
ExceedsLimit(current, add_credits, limit) ==
    NumGt(NumAdd(current, add_credits), NumAdd(limit, Tolerance))

\* f"{x:g}" of the warning 学分超限: six significant digits.  For the numbers of
\* this model (below 100000, a multiple of 0.5 plus a few units of 2^-32) the digits
\* kept are the multiple of 0.5, unless it is 0 and the small part is all there is.
format_g(x) == IF x.g = 0 THEN x ELSE Num(x.g, 0)

\* for uid in uids_to_add: self.selected.add(uid), stopping one short
AddAllButLast(sel, uids) == sel \cup {uids[i] : i \in 1..(Len(uids) - 1)}

\* for uid in uids_to_add: self.selected.add(uid)
AddAll(sel, uids) == sel \cup {uids[i] : i \in 1..Len(uids)}

\* the content of the entry bound to credit_limit_var: the text of a number, no
\* text at all, or a text Tcl reads no number from (abc, 2,5, nan)
LimitText(g, e) == [kind |-> "num", val |-> Num(g, e)]
LimitEmpty == [kind |-> "empty"]
LimitWord == [kind |-> "word"]

\* float(self.credit_limit_var.get() or 0.0): the number in the entry; get()
\* raises TclError when the entry holds no number
read_credit_limit(text) ==
    IF text.kind = "num" THEN [tag |-> "value", val |-> text.val]
    ELSE [tag |-> "raise"]

\* _add_selected_courses on the picked uids: the outcomes it may have, each
\* [outcome, selected, report]; outcome "raised" when the handler ends with the
\* TclError of reading the limit, nothing added and no dialog shown
add_selected_courses(cache, by, sel, limit, uids) ==
    IF uids = <<>>
    THEN {[outcome |-> "nothing", selected |-> sel, report |-> <<>>]}
    ELSE LET conflicts == find_conflict_between(cache, sel, uids)
             current == current_total_credits(by, sel)
             add_credits == SumOverList(by, uids)
         IN IF conflicts # {}
            THEN {[outcome |-> "conflict", selected |-> sel, report |-> r] : r \in conflicts}
            ELSE IF read_credit_limit(limit).tag = "raise"
            THEN {[outcome |-> "raised", selected |-> sel, report |-> <<>>]}
            ELSE IF ExceedsLimit(current, add_credits, read_credit_limit(limit).val)
            THEN {[outcome |-> "credit_exceeded", selected |-> sel,
                   report |-> [current |-> format_g(current),
                               added |-> format_g(add_credits),
                               limit |-> format_g(read_credit_limit(limit).val)]]}
            ELSE {[outcome |-> "added", selected |-> AddAll(sel, uids), report |-> <<>>]}

\* self.cells: the labels of the timetable, keyed (period, daycol); row 0 holds
\* the headings of the days and column 0 those of the periods
GridCells == {<<0, 0>>} \cup ({0} \X (1..7)) \cup ((1..12) \X (0..7))

\* the keys of grid_text in _refresh_timetable: (p, weekday) of every period of a
\* meeting of a selected course that takes place in the week shown
grid_text_keys(by, sel, week) ==
    UNION {UNION {{<<q, by[u].meetings[k].weekday>> :
                      q \in by[u].meetings[k].start_period..by[u].meetings[k].end_period} :
                  k \in {j \in 1..Len(by[u].meetings) :
                            occurs_on_week(by[u].meetings[j], week)}} :
           u \in sel}

\* _update_credit_status: "TclError" when the entry holds no number
update_credit_status(limit) ==
    IF read_credit_limit(limit).tag = "raise" THEN "TclError" ELSE "done"

\* _refresh_lists: the two trees are rebuilt from selected, then
\* _update_credit_status
refresh_lists(limit) == update_credit_status(limit)

\* _refresh_timetable: "KeyError" when self.cells has no label for a key of
\* grid_text (line 384), else _update_credit_status
refresh_timetable(by, sel, week, limit) ==
    IF ~(grid_text_keys(by, sel, week) \subseteq GridCells) THEN "KeyError"
    ELSE update_credit_status(limit)

\* self._refresh_lists(); self._refresh_timetable()  at the end of a handler:
\* "done", or the exception the handler ends with
refresh_all(by, sel, week, limit) ==
    IF refresh_lists(limit) # "done" THEN refresh_lists(limit)
    ELSE refresh_timetable(by, sel, week, limit)

\* _apply_credit_limit: the dialog 学分上限错误 for an entry that holds no number
\* or a number <= 0; otherwise the limit is written back
apply_credit_limit(text) ==
    IF read_credit_limit(text).tag = "raise" THEN "limit_error"
    ELSE IF ~NumGt(read_credit_limit(text).val, Zero) THEN "limit_error"
    ELSE "applied"

\* the discards of _remove_selected_courses on the picked uids
remove_selected_courses(sel, uids) == sel \ {uids[i] : i \in 1..Len(uids)}

\* the catalogue the window is opened on; the credits of C3 are 1 + 4 * 2^-32
\* (1.000000000931322574615478515625), those of C4 0.5 + 5 * 2^-32
\* (0.50000000116415321826934814453125): 4 units above a limit pass the gate of
\* _add_selected_courses, 5 units do not.  C3 also meets in period 13 of the
\* Sundays of even weeks, a period the timetable has no row for
\* 1~16周 双周 周日 13~13节
LineLate == PeriodLine(1, 16, "shuangzhou", "ri", 13, 13, NoRoomText)
RowB == Row("C2", "1", "N2", "T2", "D1", CreditsText(6, 0), <<LineB>>)
RowC == Row("C3", "1", "N3", "T3", "D2", CreditsText(2, 4), <<LineC, LineJunk, LineLate>>)
RowD == Row("C4", "1", "N4", "T4", "D2", CreditsText(1, 5), <<LineD>>)
RowE == Row("C5", "1", "N5", "T5", "D2", CreditsText(4, 0), <<LineE, LineClock, LineExam>>)
UiRows == <<RowA2, RowA, RowB, RowC, RowD, RowE>>
UiResult == parse_file(UiRows)

\* what the user may leave in the credit entry: 25, 3, 2.5, 0, nothing, abc
LimitTexts == {LimitText(50, 0), LimitText(6, 0), LimitText(5, 0),
               LimitText(0, 0), LimitEmpty, LimitWord}

\* CourseUI.__init__: self.res is the ParseResult of the catalogue; rows and pos
\* are locals of parse_file and are gone when it has returned
Init ==
    /\ fn = Idle
    /\ rows = <<>>
    /\ pos = 0
    /\ courses = UiResult.courses
    /\ by_key = UiResult.by_key
    /\ by_uid = UiResult.by_uid
    /\ global_warnings = UiResult.global_warnings
    /\ empty_room_rows = UiResult.empty_room_rows
    /\ meeting_parse_warnings = UiResult.meeting_parse_warnings
    /\ key_collisions = UiResult.key_collisions
    /\ selected = {}
    /\ occ_cache = [u \in DOMAIN UiResult.by_uid |->
                       build_occupied_cells_for_course(UiResult.by_uid[u].meetings)]
    /\ credit_limit = LimitText(50, 0)
    /\ week_var = WEEK_MIN
    /\ last = Idle

\* the button 加入已选: the rows picked in the tree of unselected courses; refresh
\* is how the two refreshes after the adding loop ended
AddSelectedCourses ==
    /\ \E uids \in {<<>>} \cup DistinctSeqs((DOMAIN by_uid) \ selected, MaxBatch) :
          \E out \in add_selected_courses(occ_cache, by_uid, selected, credit_limit, uids) :
             /\ selected' = out.selected
             /\ last' = [op |-> "add", uids |-> uids, before |-> selected,
                         limit |-> credit_limit, outcome |-> out.outcome,
                         report |-> out.report,
                         refresh |-> IF out.outcome = "added"
                                     THEN refresh_all(by_uid, out.selected, week_var,
                                                      credit_limit)
                                     ELSE "none"]
    /\ UNCHANGED <<fn, loadVars, occ_cache, credit_limit, week_var>>

\* the button 退选: the rows picked in the tree of selected courses
RemoveSelectedCourses ==
    /\ \E uids \in {<<>>} \cup DistinctSeqs(selected, MaxBatch) :
          \E refresh \in {IF uids = <<>> THEN "none"
                           ELSE refresh_all(by_uid, remove_selected_courses(selected, uids),
                                            week_var, credit_limit)} :
          /\ selected' = IF uids = <<>> THEN selected
                         ELSE remove_selected_courses(selected, uids)
          /\ last' = [op |-> "remove", uids |-> uids, before |-> selected,
                      limit |-> credit_limit,
                      outcome |-> IF uids = <<>> THEN "nothing"
                                  ELSE IF refresh # "done" THEN "removed_then_raised"
                                  ELSE "removed",
                      report |-> <<>>, refresh |-> refresh]
    /\ UNCHANGED <<fn, loadVars, occ_cache, credit_limit, week_var>>

\* the user edits the entry bound to credit_limit_var
TypeCreditLimit ==
    /\ \E v \in LimitTexts :
          /\ credit_limit' = v
          /\ last' = [op |-> "type_limit", uids |-> <<>>, before |-> selected,
                      limit |-> v, outcome |-> "typed", report |-> <<>>,
                      refresh |-> "none"]
    /\ UNCHANGED <<fn, loadVars, selected, occ_cache, week_var>>

\* the button 应用: _apply_credit_limit
ApplyCreditLimit ==
    /\ credit_limit' = credit_limit
    /\ last' = [op |-> "apply_limit", uids |-> <<>>, before |-> selected,
                limit |-> credit_limit,
                outcome |-> apply_credit_limit(credit_limit),
                report |-> <<>>, refresh |-> "none"]
    /\ UNCHANGED <<fn, loadVars, selected, occ_cache, week_var>>

\* _prev_week / _next_week: the week shown moves by step (-1 or 1) unless it is at
\* the end of the term, and the timetable is drawn again
show_week(step) ==
    IF (step = -1 /\ week_var > WEEK_MIN) \/ (step = 1 /\ week_var < WEEK_MAX)
    THEN /\ week_var' = week_var + step
         /\ last' = [op |-> "show_week", uids |-> <<>>, before |-> selected,
                     limit |-> credit_limit, outcome |-> "moved", report |-> <<>>,
                     refresh |-> refresh_timetable(by_uid, selected, week_var + step,
                                                   credit_limit)]
    ELSE /\ week_var' = week_var
         /\ last' = [op |-> "show_week", uids |-> <<>>, before |-> selected,
                     limit |-> credit_limit, outcome |-> "nothing", report |-> <<>>,
                     refresh |-> "none"]

\* the button of the previous week
PrevWeek ==
    /\ show_week(-1)
    /\ UNCHANGED <<fn, loadVars, selected, occ_cache, credit_limit>>

\* the button of the next week, pressed while the week shown is below MaxWeekShown
NextWeek ==
    /\ week_var < MaxWeekShown
    /\ show_week(1)
    /\ UNCHANGED <<fn, loadVars, selected, occ_cache, credit_limit>>

Next ==
    \/ AddSelectedCourses
    \/ RemoveSelectedCourses
    \/ TypeCreditLimit
    \/ ApplyCreditLimit
    \/ PrevWeek
    \/ NextWeek

Spec == Init /\ [][Next]_vars

(***************************************************************************)
(* Claims about the schedule model                                         *)
(***************************************************************************)
\* the cells a call of build_occupied_cells_for_course could name at all
CellUniverse == (0..(MaxWeekIn + 1)) \X (0..8) \X (0..13)

\* C5: occupied_cells(course) is exactly the set of (week, weekday, period) with
\* week in 1..16 for which some Meeting m of the course has m.occurs_on_week(week),
\* weekday = m.weekday and m.start_period <= period <= m.end_period.
C5_OccupiedCellsExact ==
    fn.op = "build_occupied_cells_for_course" =>
        /\ fn.result \subseteq CellUniverse
        /\ \A cell \in CellUniverse :
              cell \in fn.result <=>
                  /\ cell[1] >= 1 /\ cell[1] <= 16
                  /\ \E i \in 1..Len(fn.meetings) :
                        LET m == fn.meetings[i] IN
                        /\ m.start_week <= cell[1] /\ cell[1] <= m.end_week
                        /\ \/ m.pattern = "every"
                           \/ m.pattern = "odd" /\ cell[1] % 2 = 1
                           \/ m.pattern = "even" /\ cell[1] % 2 = 0
                        /\ cell[2] = m.weekday
                        /\ m.start_period <= cell[3] /\ cell[3] <= m.end_period

\* C5 witness: a course of two meetings, one of them odd-week and reaching past
\* week 16, has been given its cells, week 15 among them and week 17 not
C5_Witness ==
    /\ fn.op = "build_occupied_cells_for_course"
    /\ Len(fn.meetings) = 2
    /\ fn.meetings[1].pattern = "odd" /\ fn.meetings[1].end_week = 18
    /\ fn.meetings[2].weekday # fn.meetings[1].weekday
    /\ <<15, 3, 4>> \in fn.result
    /\ <<17, 3, 4>> \notin fn.result
    /\ \E cell \in fn.result : cell[2] = 7

\* C6: for every Meeting and week w in 1..16, occurs_on_week(w) is true iff
\* start_week <= w <= end_week and (pattern is EVERY, or ODD and w odd, or EVEN
\* and w even).
C6_OccursOnWeekIff ==
    fn.op = "occurs_on_week" =>
        (fn.result <=>
            /\ fn.m.start_week <= fn.week /\ fn.week <= fn.m.end_week
            /\ \/ fn.m.pattern = "every"
               \/ fn.m.pattern = "odd" /\ fn.week % 2 = 1
               \/ fn.m.pattern = "even" /\ fn.week % 2 = 0)

\* C6 witness: an odd-week meeting was asked about an odd week inside its range
C6_Witness ==
    /\ fn.op = "occurs_on_week"
    /\ fn.m.pattern = "odd" /\ fn.m.start_week = 1 /\ fn.m.end_week = 16
    /\ fn.week = 3
    /\ fn.result = TRUE

(***************************************************************************)
(* Claims about parse_file                                                 *)
(***************************************************************************)
\* the rows the loop has consumed so far, as positions
Consumed == 1..pos

\* row i built a Course (parse_course_row returned)
Built(i) == parse_course_row(rows[i]).tag = "course"
CourseOf(i) == parse_course_row(rows[i]).c

\* the number of entries e of the list s with P(e)
CountIn(s, P(_)) == Cardinality({k \in 1..Len(s) : P(s[k])})

\* C7: whatever lines or rows fail to parse, the number of Course records in the
\* result equals the number of input rows, and the courses appear in input-row
\* order.  Stated for files whose rows are all field mappings, as a loaded .csv or
\* .xlsx file yields them.
C7_NoRowDropped ==
    (LoadDone /\ \A i \in 1..Len(rows) : rows[i].kind = "mapping") =>
        /\ Len(courses) = Len(rows)
        /\ \A i \in 1..Len(courses) : i <= Len(rows) /\ courses[i].raw = rows[i]

\* the row cannot be interpreted: it is no mapping, or building its Course raises
RowFails(i) == ~Built(i)

\* the state parse_file would be in had the rows that cannot be interpreted not
\* been in the file at all, the other rows keeping their row numbers
RECURSIVE WithoutFailedRows(_, _)
WithoutFailedRows(st, i) ==
    IF i > pos THEN st
    ELSE IF RowFails(i) THEN WithoutFailedRows(st, i + 1)
    ELSE CHOOSE out \in
            {WithoutFailedRows(nxt, i + 1) : nxt \in {LoadStep(st, i + 1, rows[i])}} : TRUE

IsRowFailure(w) ==
    /\ w.what = "row_failed"
    /\ \E i \in Consumed : RowFails(i) /\ w.idx = i + 1

\* C8: a raw row that cannot be interpreted (it is no mapping, or its Course cannot
\* be built) records exactly one global warning carrying the row's position, adds
\* nothing to the course list, the uid index, the key index or the other
\* diagnostic lists, and every other row is processed exactly as if that row were
\* not there; the load never aborts.
C8_RowFailureIsolated ==
    LET ref == WithoutFailedRows(EmptyResult, 1) IN
    /\ courses = ref.courses
    /\ by_uid = ref.by_uid
    /\ by_key = ref.by_key
    /\ empty_room_rows = ref.empty_room_rows
    /\ meeting_parse_warnings = ref.meeting_parse_warnings
    /\ key_collisions = ref.key_collisions
    /\ SelectSeq(global_warnings, LAMBDA w : ~IsRowFailure(w)) = ref.global_warnings
    /\ \A i \in Consumed :
          RowFails(i) =>
              CountIn(global_warnings,
                      LAMBDA w : w.what = "row_failed" /\ w.idx = i + 1) = 1
    /\ Len(global_warnings) = Len(ref.global_warnings)
          + Cardinality({i \in Consumed : RowFails(i)})
    /\ (pos < Len(rows) => ENABLED LoadRow)

\* C8 witness: the load has ended on a file whose first row is no mapping and whose
\* later rows were loaded, the second of them a duplicate of the first
C8_Witness ==
    /\ LoadDone
    /\ Len(rows) = 3
    /\ rows[1].kind = "nonmapping"
    /\ Len(courses) = 2
    /\ Len(global_warnings) = 2
    /\ global_warnings[1] = [what |-> "row_failed", idx |-> 2]
    /\ global_warnings[2].what = "dup_uid" /\ global_warnings[2].idx = 4

\* no room is recovered from any line of the row, by a grammar or by the fallback
NoRoomRecovered(i) ==
    /\ Built(i)
    /\ \A k \in 1..Len(rows[i].info) :
          LET ln == rows[i].info[k] IN
          (ln.kind \notin {"blank", "exam"}) =>
              /\ extract_room_from_any(ln) = ""
              /\ parse_meeting_line(ln).tag = "meeting" => parse_meeting_line(ln).m.room = ""

\* C9: every row for which no room could be recovered from any meeting line is
\* retained as a Course and is flagged by exactly one entry of empty_room_rows.
C9_NoRoomRowFlagged ==
    \A i \in Consumed :
        NoRoomRecovered(i) =>
            /\ \E k \in 1..Len(courses) : courses[k].raw = rows[i]
            /\ CountIn(empty_room_rows, LAMBDA e : e.idx = i + 1) = 1

\* row i is a field mapping: it has a 课程号 and a 班号, so a uid
HasUid(i) == rows[i].kind = "mapping"

\* the uid of row i
UidOf(i) == <<rows[i].code, rows[i].class_no>>

\* C10: after loading any row sequence, by_uid[u] is the Course built from the
\* last row whose uid is u, every row whose uid already appeared in an earlier
\* row adds exactly one global warning, and all rows with that uid are still
\* present in the full course list.
C10_DuplicateUid ==
    /\ DOMAIN by_uid = {UidOf(i) : i \in {j \in Consumed : HasUid(j)}}
    /\ \A i \in Consumed :
          HasUid(i) =>
              /\ (\A j \in Consumed : (j > i /\ HasUid(j)) => UidOf(j) # UidOf(i))
                    => /\ Built(i)
                       /\ by_uid[UidOf(i)] = CourseOf(i)
              /\ CountIn(global_warnings,
                         LAMBDA w : w.what = "dup_uid" /\ w.idx = i + 1)
                    = IF \E j \in 1..(i - 1) : HasUid(j) /\ UidOf(j) = UidOf(i)
                      THEN 1 ELSE 0
              /\ CountIn(courses, LAMBDA c : c.uid = UidOf(i))
                    = Cardinality({j \in Consumed : HasUid(j) /\ UidOf(j) = UidOf(i)})
    /\ \A k \in 1..Len(global_warnings) :
          global_warnings[k].what = "dup_uid" =>
              \E i \in Consumed, j \in Consumed :
                  /\ j < i /\ HasUid(i) /\ HasUid(j) /\ UidOf(j) = UidOf(i)
                  /\ global_warnings[k].idx = i + 1

(***************************************************************************)
(* Claims about the selection handlers                                     *)
(***************************************************************************)
\* the cells of the term a course of the catalogue occupies, from its meetings
CellsOf ==
    [u \in DOMAIN UiResult.by_uid |->
        {cell \in (WEEK_MIN..WEEK_MAX) \X (1..7) \X (0..MaxPeriodIn) :
            \E k \in 1..Len(UiResult.by_uid[u].meetings) :
                occurs_on(UiResult.by_uid[u].meetings[k], cell[1], cell[2], cell[3])}]

\* the loaded courses that have a cell in common with the course u
SharingCell ==
    [u \in DOMAIN UiResult.by_uid |->
        {v \in DOMAIN UiResult.by_uid : CellsOf[u] \cap CellsOf[v] # {}}]

\* the i-th candidate of the last batch shares a cell with a selected course or
\* with an earlier candidate
Collides(i) ==
    \E u \in last.before \cup {last.uids[j] : j \in 1..(i - 1)} :
        last.uids[i] \in SharingCell[u]

BatchCollides == \E i \in 1..Len(last.uids) : Collides(i)

\* no week on which a meeting of u and a meeting of v both take place
DisjointWeeks(u, v) ==
    \A k1 \in 1..Len(by_uid[u].meetings), k2 \in 1..Len(by_uid[v].meetings) :
        \A w \in WEEK_MIN..WEEK_MAX :
            ~(occurs_on_week(by_uid[u].meetings[k1], w)
              /\ occurs_on_week(by_uid[v].meetings[k2], w))

\* meetings of u and v on the same weekday have disjoint period ranges
DisjointPeriods(u, v) ==
    \A k1 \in 1..Len(by_uid[u].meetings), k2 \in 1..Len(by_uid[v].meetings) :
        LET m1 == by_uid[u].meetings[k1]
            m2 == by_uid[v].meetings[k2]
        IN m1.weekday = m2.weekday =>
              (m1.end_period < m2.start_period \/ m2.end_period < m1.start_period)

AddedBatch == last.op = "add" /\ last.uids # <<>>

\* C1: on a batch of distinct candidates outside the selected set, the check
\* reports a conflict iff some candidate shares a (week, weekday, period) cell with
\* a selected course or an earlier candidate; the pair it reports shares the cell
\* it reports, so courses with disjoint periods on the same weekday, or meeting
\* on disjoint weeks, are never reported.
C1_ConflictIffSharedCell ==
    AddedBatch =>
       /\ (last.outcome = "conflict") <=> BatchCollides
       /\ last.outcome = "conflict" =>
             /\ last.report.new \in Range(last.uids)
             /\ last.report.other \in last.before \cup Range(last.uids)
             /\ last.report.other # last.report.new
             /\ last.report.cell \in CellsOf[last.report.other] \cap CellsOf[last.report.new]
             /\ ~DisjointWeeks(last.report.other, last.report.new)
             /\ ~DisjointPeriods(last.report.other, last.report.new)
       /\ \A i, j \in 1..Len(last.uids) :
             (DisjointWeeks(last.uids[i], last.uids[j])
                \/ DisjointPeriods(last.uids[i], last.uids[j]))
             => ~(last.outcome = "conflict"
                  /\ {last.report.other, last.report.new} = {last.uids[i], last.uids[j]})

\* C1 witness: a batch rejected because a candidate collides at week 5, Wednesday,
\* period 4 with an earlier candidate of the same batch.
C1_Witness ==
    /\ AddedBatch
    /\ last.outcome = "conflict"
    /\ last.report.other \notin last.before
    /\ last.report.cell = <<5, 3, 4>>

\* C2: after an add the selected set is the old one (batch rejected or empty) or
\* the old one united with the whole batch, never with a part of it.
C2_AtomicBatchAdd ==
    last.op = "add" =>
       /\ selected = last.before \/ selected = last.before \cup Range(last.uids)
       /\ last.outcome \in {"nothing", "conflict", "credit_exceeded", "raised"}
             => selected = last.before
       /\ last.outcome = "added" => selected = last.before \cup Range(last.uids)
       /\ last.outcome \in {"nothing", "conflict", "credit_exceeded", "raised", "added"}

\* C2 witness: a batch whose first candidate is free and whose later candidate
\* collides: nothing of it was added.
C2_Witness ==
    /\ AddedBatch
    /\ last.outcome = "conflict"
    /\ last.report.new # last.uids[1]
    /\ last.before # {}
    /\ selected = last.before

\* the credits of the selected set and of the batch together
TotalWithBatch == SumOverSet(by_uid, last.before \cup Range(last.uids))

\* the entry held a number when the last handler ran, and the credits of the
\* selected set and the batch together exceed it by more than 1e-9
TotalExceedsLimit ==
    /\ last.limit.kind = "num"
    /\ NumGt(TotalWithBatch, NumAdd(last.limit.val, Tolerance))

\* C3: a conflict-free batch is rejected iff the credits of the selected set plus
\* those of the batch exceed the limit by more than 1e-9; a total equal to the
\* limit is accepted; the rejection reports the selected total, the batch total
\* and the limit.
C3_CreditGate ==
    (AddedBatch /\ ~BatchCollides) =>
       /\ (selected = last.before) <=> TotalExceedsLimit
       /\ (last.outcome = "added") <=> ~TotalExceedsLimit
       /\ (last.limit.kind = "num" /\ TotalWithBatch = last.limit.val)
             => last.outcome = "added"
       /\ last.outcome # "added" =>
             /\ last.outcome = "credit_exceeded"
             /\ last.report = [current |-> format_g(SumOverSet(by_uid, last.before)),
                               added |-> format_g(SumOverSet(by_uid, Range(last.uids))),
                               limit |-> format_g(last.limit.val)]

\* the credit check of the last add found the new total within the limit: it read
\* a number from the entry and the total does not exceed it by more than 1e-9
TotalWithinLimit ==
    /\ last.limit.kind = "num"
    /\ ~NumGt(TotalWithBatch, NumAdd(last.limit.val, Tolerance))

\* C4: a non-empty batch is added iff the conflict check finds no collision and
\* the new total is within the limit; failing one gate alone rejects it.
C4_AdmittedIffBothGates ==
    AddedBatch =>
       /\ (selected = last.before \cup Range(last.uids) /\ selected # last.before)
            <=> (~BatchCollides /\ TotalWithinLimit)
       /\ (BatchCollides \/ ~TotalWithinLimit) => selected = last.before

\* C4 witness: a batch of two without any collision, rejected by the credit gate
\* alone although the batch by itself is within the limit.
C4_Witness ==
    /\ AddedBatch
    /\ Len(last.uids) = 2
    /\ ~BatchCollides
    /\ last.outcome = "credit_exceeded"
    /\ ~NumGt(SumOverSet(by_uid, Range(last.uids)), NumAdd(last.limit.val, Tolerance))
    /\ selected = last.before

(***************************************************************************)
(* Claims about parse_meeting_line and parse_course_row                    *)
(***************************************************************************)
\* the entries of s at the positions in I, in order
PickAt(s, I) ==
    LET F[k \in 0..Len(s)] ==
            IF k = 0 THEN <<>>
            ELSE IF k \in I THEN Append(F[k - 1], s[k]) ELSE F[k - 1]
    IN F[Len(s)]

\* the non-empty lines of a field that are no exam-schedule lines
MeetingTextLines(info) == SelectSeq(info, LAMBDA ln : ln.kind \notin {"blank", "exam"})

\* every line of lines went to exactly one of the two lists, a Meeting made from
\* it or a warning holding its text, both lists in line order
LinesAccounted(c, lines) ==
    /\ Len(c.meetings) + Len(c.parse_warnings) = Len(lines)
    /\ \E I \in SUBSET (1..Len(lines)) :
          /\ [k \in 1..Len(c.meetings) |-> c.meetings[k].raw] = PickAt(lines, I)
          /\ [k \in 1..Len(c.parse_warnings) |-> c.parse_warnings[k]]
                = [k \in 1..Len(PickAt(lines, (1..Len(lines)) \ I)) |->
                      UnparsedLine(PickAt(lines, (1..Len(lines)) \ I)[k])]

\* C11: in a row's meeting-time text an exam line produces no Meeting and no
\* warning and every other non-empty line produces exactly one Meeting or exactly
\* one warning with the line's text, so the row's Course has len(meetings) +
\* len(parse_warnings) equal to the number of non-empty non-exam lines, the
\* meetings in line order and identical lines not merged.
C11_PerLineAccounting ==
    fn.op = "parse_course_row" =>
        /\ fn.result.tag = "course"
        /\ LinesAccounted(fn.result.c, MeetingTextLines(fn.row.info))

\* a call of parse_meeting_line that returned a Meeting
ParsedMeeting == fn.op = "parse_meeting_line" /\ fn.result.tag = "meeting"

\* C12: every Meeting produced from a period-notation line has start_week <=
\* end_week and start_period <= end_period, whichever way round the two numbers of
\* each range were written.
C12_RangesOrdered ==
    (ParsedMeeting /\ fn.line.kind = "period") =>
        /\ fn.result.m.start_week <= fn.result.m.end_week
        /\ fn.result.m.start_period <= fn.result.m.end_period

\* C13: the Meeting of a period-notation line is ODD exactly when the line carries
\* 单周, EVEN exactly when it carries 双周 and EVERY otherwise (每周 or no token);
\* the Meeting of a clock-notation line is always EVERY.
C13_WeekPattern ==
    ParsedMeeting =>
        IF fn.line.kind = "period"
        THEN /\ (fn.result.m.pattern = "odd") <=> (fn.line.pat = "danzhou")
             /\ (fn.result.m.pattern = "even") <=> (fn.line.pat = "shuangzhou")
             /\ (fn.result.m.pattern = "every") <=> (fn.line.pat \in {"", "meizhou"})
        ELSE fn.line.kind = "clock" /\ fn.result.m.pattern = "every"

\* C13 witness: a line written with 单周 was parsed into an odd-week Meeting
C13_Witness ==
    /\ ParsedMeeting
    /\ fn.line.kind = "period"
    /\ fn.line.pat = "danzhou"
    /\ fn.line.ps = 3 /\ fn.line.pe = 4
    /\ fn.result.m.pattern = "odd"

\* the minutes of the day one end of a clock range stands for, by the half-hour
\* rule: a trailing 半 makes the minutes 30
MinutesWritten(h, m, half) == h * 60 + (IF half THEN 30 ELSE IF m = -1 THEN 0 ELSE m)

\* the 12-hour shift of lines with an afternoon or evening token
ShiftedPM(x) == IF x < 12 * 60 THEN x + 12 * 60 ELSE x

\* x is within 20 minutes of the anchor a
Near(x, a) == x - a <= 20 /\ a - x <= 20

\* a call of parse_meeting_line on a clock-notation line
ClockCall ==
    /\ fn.op = "parse_meeting_line"
    /\ MatchesClockRE(fn.line)
    /\ ~fn.line.overlong

\* the periods of the call's result, <<>> when it is no Meeting
PeriodsReturned ==
    IF fn.result.tag = "meeting"
    THEN <<fn.result.m.start_period, fn.result.m.end_period>>
    ELSE <<>>

\* C14: a clock-notation line with a time-of-day token, after the half-hour rule
\* and the 12-hour shift, yields periods 5-8 under an afternoon token exactly when
\* start and end are within 20 minutes of 13:00 and 16:30, periods 9-12 under an
\* evening token exactly when they are within 20 minutes of 18:00 and 21:30, and
\* is a parse failure in every other case; an afternoon token never yields 9-12
\* and an evening token never yields 5-8.
C14_ClockWithToken ==
    (ClockCall /\ fn.line.tod \in {"xiawu", "wan", "wanshang"}) =>
        LET start == ShiftedPM(MinutesWritten(fn.line.h1, fn.line.m1, fn.line.half1))
            end == ShiftedPM(MinutesWritten(fn.line.h2, fn.line.m2, fn.line.half2))
        IN IF fn.line.tod = "xiawu"
           THEN PeriodsReturned =
                   (IF Near(start, 13 * 60) /\ Near(end, 16 * 60 + 30)
                    THEN <<5, 8>> ELSE <<>>)
           ELSE PeriodsReturned =
                   (IF Near(start, 18 * 60) /\ Near(end, 21 * 60 + 30)
                    THEN <<9, 12>> ELSE <<>>)

\* C15: a clock-notation line without a time-of-day token maps to periods 5-8 if
\* start/end are within 20 minutes of 13:00/16:30 or if 12:00 <= start <= 15:00
\* and end >= 16:00, to periods 9-12 if start/end are within 20 minutes of
\* 18:00/21:30 or if start >= 17:00, and for every other (start, end) pair fails
\* to map and produces no Meeting.
C15_ClockWithoutToken ==
    (ClockCall /\ fn.line.tod = "") =>
        LET start == MinutesWritten(fn.line.h1, fn.line.m1, fn.line.half1)
            end == MinutesWritten(fn.line.h2, fn.line.m2, fn.line.half2)
            afternoon == \/ Near(start, 13 * 60) /\ Near(end, 16 * 60 + 30)
                         \/ 12 * 60 <= start /\ start <= 15 * 60 /\ end >= 16 * 60
            evening == \/ Near(start, 18 * 60) /\ Near(end, 21 * 60 + 30)
                       \/ start >= 17 * 60
        IN /\ afternoon => PeriodsReturned = <<5, 8>>
           /\ evening => PeriodsReturned = <<9, 12>>
           /\ (~afternoon /\ ~evening) => PeriodsReturned = <<>>

\* the room recovered from a line: the room field of the grammar it matches, or
\* what the fallback extraction finds in it; "" when neither gives one
RoomRecovered(ln) ==
    LET r == parse_meeting_line(ln)
    IN IF r.tag = "meeting" /\ r.m.room # "" THEN r.m.room
       ELSE extract_room_from_any(ln)

\* the room of the first line of lines with a recovered room, else the sentinel
FirstRoomRecovered(lines) ==
    LET having == {k \in 1..Len(lines) : RoomRecovered(lines[k]) # ""}
    IN IF having = {} THEN ROOM_UNKNOWN
       ELSE RoomRecovered(lines[CHOOSE k \in having : \A j \in having : k <= j])

\* C16: for every row, key.room is the room of the first non-exam line, in source
\* order, from which a non-empty room is recovered (by the grammar's room field
\* or by the fallback extraction), and the room-unknown sentinel if no line
\* yields one.
C16_KeyRoomIsFirstRecovered ==
    fn.op = "parse_course_row" =>
        /\ fn.result.tag = "course"
        /\ fn.result.c.key.room = FirstRoomRecovered(MeetingTextLines(fn.row.info))

\* C17: the credits of every Course built from a raw row are a number greater
\* than or equal to zero.
C17_CreditsNonNegative ==
    (fn.op = "parse_course_row" /\ fn.result.tag = "course") =>
        ~NumGt(Zero, fn.result.c.credits)

\* C19: every Meeting the parser produces has its weekday in 1..7 and
\* 1 <= start_period <= end_period <= 12, and every cell it occupies has its
\* week in 1..16, its weekday in 1..7 and its period in 1..12.
C19_MeetingWithinTimetable ==
    ParsedMeeting =>
        LET m == fn.result.m
        IN /\ m.weekday \in 1..7
           /\ 1 <= m.start_period
           /\ m.start_period <= m.end_period
           /\ m.end_period <= 12
           /\ \A cell \in build_occupied_cells_for_course(<<m>>) :
                  /\ cell[1] \in WEEK_MIN..WEEK_MAX
                  /\ cell[2] \in 1..7
                  /\ cell[3] \in 1..12

(***************************************************************************)
(* Claims about repeated loads                                             *)
(***************************************************************************)
\* C18: loading is deterministic and stateless: two loads of the same row
\* sequence, whatever was loaded before or between them, return results with
\* the same course list, the same uid and key indexes and the same diagnostic
\* lists.
C18_SameRowsSameResult ==
    \A i \in 1..Len(fn.calls) : \A j \in 1..Len(fn.calls) :
        fn.calls[i].rows = fn.calls[j].rows =>
            fn.calls[i].result = fn.calls[j].result

\* a file with a repeated uid was loaded, another file after it, then the first
\* again, and the last load reported the repeated uid
C18_Witness ==
    /\ Len(fn.calls) = 3
    /\ fn.calls[1].rows = <<RowA, RowA2>>
    /\ fn.calls[2].rows = <<RowA2>>
    /\ fn.calls[3].rows = <<RowA, RowA2>>
    /\ Len(fn.calls[3].result.courses) = 2
    /\ Len(fn.calls[3].result.global_warnings) = 1

(***************************************************************************)
(* Claims about the selection as a whole                                   *)
(***************************************************************************)
\* C20: starting from the empty selection, after any sequence of adds and
\* removes no two distinct selected courses share a (week, weekday, period)
\* cell, and every selected uid is in the loaded uid index.
C20_SelectionConflictFree ==
    /\ \A u \in selected : \A v \in selected :
           u # v => v \notin SharingCell[u]
    /\ selected \subseteq DOMAIN by_uid

\* three or more courses are selected, among them the odd-week and the even-week
\* course of the same weekday and periods, and the last add was turned down for a
\* conflict with one of them
C20_Witness ==
    /\ {<<"C3", "1">>, <<"C4", "1">>} \subseteq selected
    /\ Cardinality(selected) >= 3
    /\ last.op = "add"
    /\ last.outcome = "conflict"
    /\ last.report.other \in selected

(***************************************************************************)
(* Claims about the credit limit and the order of the conflict check       *)
(***************************************************************************)
\* C21: starting from the empty selection with a positive limit, after any add,
\* remove or apply of the credit limit, while the limit is positive the credits
\* of the selected courses do not exceed it by more than 1e-9.
C21_CreditCeiling ==
    (/\ last.op \in {"add", "remove", "apply_limit"}
     /\ credit_limit.kind = "num"
     /\ NumGt(credit_limit.val, Zero)) =>
        ~NumGt(current_total_credits(by_uid, selected),
               NumAdd(credit_limit.val, Tolerance))

\* the position of the earliest candidate of the last batch that collides
FirstColliding == CHOOSE i \in 1..Len(last.uids) : Collides(i) /\ \A j \in 1..(i - 1) : ~Collides(j)

\* C22: a reported conflict names as new course the earliest candidate, in batch
\* order, that collides with the selected set or with an earlier candidate; the
\* other course is a different one, selected or earlier in the batch; the cell
\* reported is occupied by both; and the report is one the check gives for the
\* batch cut off after that candidate, so nothing after it is examined.
C22_FirstConflictWins ==
    (AddedBatch /\ last.outcome = "conflict") =>
        /\ BatchCollides
        /\ last.report.new = last.uids[FirstColliding]
        /\ last.report.other # last.report.new
        /\ last.report.other \in
              last.before \cup {last.uids[j] : j \in 1..(FirstColliding - 1)}
        /\ last.report.cell \in CellsOf[last.report.other] \cap CellsOf[last.report.new]
        /\ last.report \in
              find_conflict_between(occ_cache, last.before,
                                    SubSeq(last.uids, 1, FirstColliding))

\* both candidates of a batch of two collide with the selected set and the
\* first of them is the one reported
C22_Witness ==
    /\ AddedBatch
    /\ last.outcome = "conflict"
    /\ Len(last.uids) = 2
    /\ \E u \in last.before : last.uids[1] \in SharingCell[u]
    /\ \E u \in last.before : last.uids[2] \in SharingCell[u]
    /\ last.report.new = last.uids[1]
    /\ last.report.other \in last.before

(***************************************************************************)
(* Claims about the CourseKey index                                        *)
(***************************************************************************)
\* the Courses of the list cs whose key is k, in the order of cs
WithKey(cs, k) == SelectSeq(cs, LAMBDA c : c.key = k)

\* the sum of the lengths of the lists of the index by
RECURSIVE SumOfLengths(_, _)
SumOfLengths(by, K) ==
    IF K = {} THEN 0
    ELSE LET k == CHOOSE x \in K : TRUE
         IN Len(by[k]) + SumOfLengths(by, K \ {k})

\* C23: after a load, by_key[k] lists in input order exactly the Courses whose
\* key is k, the lengths of the lists sum to len(courses), key_collisions has
\* len(courses) minus the number of distinct keys entries, and every row with a
\* key collision also has a duplicate-uid warning.
C23_KeyIndexAccounting ==
    LoadDone =>
        /\ DOMAIN by_key = {courses[i].key : i \in 1..Len(courses)}
        /\ \A k \in DOMAIN by_key : by_key[k] = WithKey(courses, k)
        /\ SumOfLengths(by_key, DOMAIN by_key) = Len(courses)
        /\ Len(key_collisions) = Len(courses) - Cardinality(DOMAIN by_key)
        /\ \A n \in 1..Len(key_collisions) :
              \E w \in 1..Len(global_warnings) :
                  /\ global_warnings[w].what = "dup_uid"
                  /\ global_warnings[w].idx = key_collisions[n].idx
                  /\ global_warnings[w].uid =
                        <<key_collisions[n].key.course_code, key_collisions[n].key.class_no>>

\* a file of three rows with one key, the second from another teacher than the
\* first and with other meetings: the list of the key has three Courses and two
\* collisions were recorded
C23_Witness ==
    /\ LoadDone
    /\ Len(rows) = 3
    /\ rows[1] = RowA /\ rows[2] = RowA3 /\ rows[3] = RowA
    /\ Len(courses) = 3
    /\ Cardinality(DOMAIN by_key) = 1
    /\ Len(key_collisions) = 2
    /\ key_collisions[1].new_teacher = "T3"

====
